---- MODULE Spec2Model ----
(***************************************************************************)
(* Model of pkg/k8s.io/api/resource/dynamic_resources_podman_types.go:     *)
(* the DynamicResourcesManager, its two name-keyed registries and the      *)
(* resolution of a PodResourceClaim to a device string.                    *)
(*                                                                         *)
(* Go strings are TLA+ strings; fmt.Sprintf / fmt.Errorf are computed by   *)
(* scanning the format for the %s verb.  A Go pointer to a string is a set *)
(* holding at most one string (the empty set is nil); an error is a set    *)
(* holding at most one message (the empty set is the nil error).  A Go map *)
(* is a function whose DOMAIN is the set of keys present.                  *)
(***************************************************************************)
EXTENDS FiniteSets, Integers, Sequences, TLC

VARIABLES resourceClaimParameters, resourceClaimTemplates, lastCall,
          firstStored, pc, call, result, succeeded, raced, crashed

vars == <<resourceClaimParameters, resourceClaimTemplates, lastCall,
          firstStored, pc, call, result, succeeded, raced, crashed>>

registries == <<resourceClaimParameters, resourceClaimTemplates>>

concVars == <<pc, call, result, succeeded, raced, crashed>>

(***************************************************************************)
(* Program constants                                                       *)
(***************************************************************************)
CDIClaimParametersApiVersion == "cdi.resource.podman.io/v1"

SimpleDeviceClaimParametersApiVersion == "simpledevice.resource.podman.io/v1"

(***************************************************************************)
(* Bounds and input universes                                              *)
(***************************************************************************)
NumValues == 1

NumProcs == 2

OtherApiVersion == "other.resource.podman.io/v1"

ApiVersions ==
  {SimpleDeviceClaimParametersApiVersion, CDIClaimParametersApiVersion, OtherApiVersion}

SpecKeys == {"hostpath", "device", "vendor", "name"}

ValueTable ==
  [hostpath |-> <<"/dev/foo", "/dev/bar", "/dev/baz">>,
   device   |-> <<"gpu", "nic", "fpga">>,
   vendor   |-> <<"acme", "vendor.com", "example.org">>,
   name     |-> <<"0", "1", "2">>]

SpecKeySets == (SUBSET {"device", "vendor", "name"}) \cup {{"hostpath"}, SpecKeys}

SpecMaps ==
  {[k \in S |-> ValueTable[k][i]] : S \in SpecKeySets, i \in 1..NumValues}

ParamNames == {"p1"}

RefNames == {"p1", "p2"}

TemplateNames == {"t1", "t2"}

ClaimTemplateNames == {"t1", "t2", "t3"}

ClaimNames == {"c1"}

ParamEntries ==
  {[Name |-> n, APIVersion |-> a, Spec |-> m] :
     n \in ParamNames, a \in ApiVersions, m \in SpecMaps}

TemplateEntries ==
  {[Name |-> n, ParametersRef |-> r] : n \in TemplateNames, r \in RefNames}

Pointers(S) == {{}} \cup {{s} : s \in S}

Claims ==
  {[ResourceClaimName |-> d, ResourceClaimTemplateName |-> t] :
     d \in Pointers(ClaimNames), t \in Pointers(ClaimTemplateNames)}

Procs == 1..NumProcs

RaceParamEntries ==
  {[Name |-> "p1", APIVersion |-> SimpleDeviceClaimParametersApiVersion,
    Spec |-> [hostpath |-> h]] : h \in {"/dev/foo", "/dev/bar"}}

RaceTemplateEntries ==
  {[Name |-> "t1", ParametersRef |-> r] : r \in RefNames}

(***************************************************************************)
(* Go values                                                               *)
(***************************************************************************)
Deref(p) == CHOOSE s \in p : TRUE

NoError == {}

Error(msg) == {msg}

Return(v, e) == [val |-> v, err |-> e]

Contains(s, sub) ==
  \E i \in 1..(Len(s) - Len(sub) + 1) : SubSeq(s, i, i + Len(sub) - 1) = sub

VerbPositions(format) ==
  {i \in 1..(Len(format) - 1) : SubSeq(format, i, i + 1) = "%s"}

FirstVerb(V) == CHOOSE i \in V : \A j \in V : i <= j

RECURSIVE ExtraList(_)
ExtraList(args) ==
  IF Len(args) = 1 THEN "string=" \o Head(args)
  ELSE "string=" \o Head(args) \o ", " \o ExtraList(Tail(args))

Extra(args) == "%!(EXTRA " \o ExtraList(args) \o ")"

RECURSIVE Sprintf(_, _)
Sprintf(format, args) ==
  LET V == VerbPositions(format) IN
  IF V = {} THEN (IF Len(args) = 0 THEN format ELSE format \o Extra(args))
  ELSE LET i == FirstVerb(V) IN
       SubSeq(format, 1, i - 1)
         \o (IF Len(args) > 0 THEN Head(args) ELSE "%!s(MISSING)")
         \o Sprintf(SubSeq(format, i + 2, Len(format)),
                    IF Len(args) > 0 THEN Tail(args) ELSE args)

Errorf(format, args) == Error(Sprintf(format, args))

(***************************************************************************)
(* Go map operations                                                       *)
(***************************************************************************)
HasKey(m, k) == k \in DOMAIN m

MapStore(m, k, v) == [x \in DOMAIN m \cup {k} |-> IF x = k THEN v ELSE m[x]]

NewDynamicDevicesResourceManager ==
  [resourceClaimParameters |-> <<>>, resourceClaimTemplates |-> <<>>]

(***************************************************************************)
(* Registration: the outcome of one whole call on a registry, as the new   *)
(* registry and the returned error.                                        *)
(***************************************************************************)
errDuplicateParameters == Errorf("duplicate resource claim parameters defined", <<>>)

errDuplicateTemplate == Errorf("duplicate resource claim template defined", <<>>)

AddClaimParameters_LastWriteWins(reg, e) ==
  [reg |-> MapStore(reg, e.Name, e), err |-> NoError]

AddClaimParameters(reg, e) ==
  IF HasKey(reg, e.Name)
  THEN [reg |-> reg, err |-> errDuplicateParameters]
  ELSE [reg |-> MapStore(reg, e.Name, e), err |-> NoError]

AddResourceClaimTemplate_LastWriteWins(reg, e) ==
  IF HasKey(reg, e.Name)
  THEN [reg |-> MapStore(reg, e.Name, e), err |-> errDuplicateTemplate]
  ELSE [reg |-> MapStore(reg, e.Name, e), err |-> NoError]

AddResourceClaimTemplate(reg, e) ==
  IF HasKey(reg, e.Name)
  THEN [reg |-> reg, err |-> errDuplicateTemplate]
  ELSE [reg |-> MapStore(reg, e.Name, e), err |-> NoError]

(***************************************************************************)
(* Resolution                                                              *)
(***************************************************************************)
errorMsgTmpl == "failed to resolve resource claim to device: %s"

ZeroResourceClaim == [Name |-> "", ParametersRef |-> ""]

errShouldBeNil == Errorf(errorMsgTmpl, <<"resource claim should be nil">>)

errMissingTemplateName == Errorf("claim source missing template name", <<>>)

errSourceNotFound == Errorf("Pod Resource Claim Source not found", <<>>)

errParametersNotFound == Errorf("failed to resolve resource claim parameters", <<>>)

errMissingHostpath ==
  Errorf("missing hostpath in simple device resource claim parameters", <<>>)

(* the formatted errors, tabulated once over the arguments the code can pass *)
errWrapped ==
  [e \in {errMissingTemplateName, errSourceNotFound} |->
     Errorf(errorMsgTmpl, <<Deref(e)>>)]

errMissingCDI ==
  [k \in {"device", "vendor", "name"} |->
     Errorf("missing %s parameter of CDI claim parameter resource", <<k>>)]

SpecValues(k) == {ValueTable[k][i] : i \in 1..NumValues}

cdiDeviceName ==
  [t \in SpecValues("vendor") \X SpecValues("device") \X SpecValues("name") |->
     Sprintf("%s/%s=%s", t)]

errUnsupportedApiVersion_NoValue ==
  [v \in ApiVersions |->
     Errorf("unsupported resource claim parameter apiVersion", <<>>)]

errUnsupportedApiVersion ==
  [v \in ApiVersions |->
     Errorf("unsupported resource claim parameter apiVersion: %s", <<v>>)]

resolveK8sPodResourceClaimToResourceClaimTemplate_ZeroOnMiss(templates, claim) ==
  IF claim.ResourceClaimTemplateName = {}
  THEN [rt |-> ZeroResourceClaim, err |-> errMissingTemplateName]
  ELSE IF ~HasKey(templates, Deref(claim.ResourceClaimTemplateName))
  THEN [rt |-> ZeroResourceClaim, err |-> NoError]
  ELSE [rt |-> templates[Deref(claim.ResourceClaimTemplateName)], err |-> NoError]

resolveK8sPodResourceClaimToResourceClaimTemplate(templates, claim) ==
  IF claim.ResourceClaimTemplateName = {}
  THEN [rt |-> ZeroResourceClaim,
        err |-> errMissingTemplateName]
  ELSE IF ~HasKey(templates, Deref(claim.ResourceClaimTemplateName))
  THEN [rt |-> ZeroResourceClaim,
        err |-> errSourceNotFound]
  ELSE [rt |-> templates[Deref(claim.ResourceClaimTemplateName)], err |-> NoError]

resolveSimpleDevice_DevPrefix(parameters) ==
  IF ~HasKey(parameters.Spec, "hostpath")
  THEN Return("", errMissingHostpath)
  ELSE Return("/dev/" \o parameters.Spec["hostpath"], NoError)

resolveSimpleDevice(parameters) ==
  IF ~HasKey(parameters.Spec, "hostpath")
  THEN Return("", errMissingHostpath)
  ELSE Return(parameters.Spec["hostpath"], NoError)

resolveCDIDevice_VendorFirst(parameters) ==
  IF ~HasKey(parameters.Spec, "vendor")
  THEN Return("", errMissingCDI["vendor"])
  ELSE IF ~HasKey(parameters.Spec, "device")
  THEN Return("", errMissingCDI["device"])
  ELSE IF ~HasKey(parameters.Spec, "name")
  THEN Return("", errMissingCDI["name"])
  ELSE Return(cdiDeviceName[<<parameters.Spec["vendor"],
                               parameters.Spec["device"],
                               parameters.Spec["name"]>>], NoError)

resolveCDIDevice(parameters) ==
  IF ~HasKey(parameters.Spec, "device")
  THEN Return("", errMissingCDI["device"])
  ELSE IF ~HasKey(parameters.Spec, "vendor")
  THEN Return("", errMissingCDI["vendor"])
  ELSE IF ~HasKey(parameters.Spec, "name")
  THEN Return("", errMissingCDI["name"])
  ELSE Return(cdiDeviceName[<<parameters.Spec["vendor"],
                               parameters.Spec["device"],
                               parameters.Spec["name"]>>], NoError)

interpretParameters_DefaultCDI(parameters) ==
  IF parameters.APIVersion = SimpleDeviceClaimParametersApiVersion
  THEN resolveSimpleDevice(parameters)
  ELSE resolveCDIDevice(parameters)

interpretParameters(parameters) ==
  IF parameters.APIVersion = SimpleDeviceClaimParametersApiVersion
  THEN resolveSimpleDevice(parameters)
  ELSE IF parameters.APIVersion = CDIClaimParametersApiVersion
  THEN resolveCDIDevice(parameters)
  ELSE Return("", errUnsupportedApiVersion[parameters.APIVersion])

resolveResourceClaimTemplateToDevice(parameters, rt) ==
  IF ~HasKey(parameters, rt.ParametersRef)
  THEN Return("", errParametersNotFound)
  ELSE interpretParameters(parameters[rt.ParametersRef])

ResolveK8sPodResourceClaimToDevice_TemplateFirst(parameters, templates, claim) ==
  IF claim.ResourceClaimName # {} /\ claim.ResourceClaimTemplateName = {}
  THEN Return("", errShouldBeNil)
  ELSE LET r == resolveK8sPodResourceClaimToResourceClaimTemplate(templates, claim) IN
       IF r.err # NoError
       THEN Return("", errWrapped[r.err])
       ELSE resolveResourceClaimTemplateToDevice(parameters, r.rt)

ResolveK8sPodResourceClaimToDevice(parameters, templates, claim) ==
  IF claim.ResourceClaimName # {}
  THEN Return("", errShouldBeNil)
  ELSE LET r == resolveK8sPodResourceClaimToResourceClaimTemplate(templates, claim) IN
       IF r.err # NoError
       THEN Return("", errWrapped[r.err])
       ELSE resolveResourceClaimTemplateToDevice(parameters, r.rt)

(***************************************************************************)
(* The current manager's answer to a claim                                 *)
(***************************************************************************)
Resolution(claim) ==
  ResolveK8sPodResourceClaimToDevice(resourceClaimParameters, resourceClaimTemplates, claim)

(***************************************************************************)
(* State machine 1: the caller serialises every call on the manager.       *)
(* lastCall records the latest call, its argument and what it returned;    *)
(* lastCall.again says the call before it was a resolution of the same     *)
(* claim.  firstStored records, per registry and name, the entry of the    *)
(* first registration that returned success.                               *)
(***************************************************************************)
RegistryOf(op) == IF op = "AddClaimParameters" THEN "params" ELSE "templates"

KeyOf(op, e) == <<RegistryOf(op), e.Name>>

RaceKeys ==
  {KeyOf("AddClaimParameters", e) : e \in RaceParamEntries}
    \cup {KeyOf("AddResourceClaimTemplate", e) : e \in RaceTemplateEntries}

NoCall == [op |-> "none", arg |-> {}, ret |-> Return("", NoError), again |-> FALSE]

Remember(first, e) == IF HasKey(first, e.Name) THEN first ELSE MapStore(first, e.Name, e)

Init ==
  /\ resourceClaimParameters = NewDynamicDevicesResourceManager.resourceClaimParameters
  /\ resourceClaimTemplates = NewDynamicDevicesResourceManager.resourceClaimTemplates
  /\ lastCall = NoCall
  /\ firstStored = [params |-> <<>>, templates |-> <<>>]
  /\ pc = [p \in Procs |-> "idle"]
  /\ call = [p \in Procs |-> [op |-> "none", arg |-> {}]]
  /\ result = [p \in Procs |-> [done |-> FALSE, err |-> NoError]]
  /\ succeeded = [k \in RaceKeys |-> 0]
  /\ raced = {}
  /\ crashed = FALSE

AddClaimParametersCall(e) ==
  LET out == AddClaimParameters(resourceClaimParameters, e) IN
  /\ resourceClaimParameters' = out.reg
  /\ lastCall' = [op |-> "AddClaimParameters", arg |-> e,
                  ret |-> Return("", out.err), again |-> FALSE]
  /\ firstStored' = IF out.err = NoError
                    THEN [firstStored EXCEPT !.params = Remember(@, e)]
                    ELSE firstStored
  /\ UNCHANGED <<resourceClaimTemplates, concVars>>

AddResourceClaimTemplateCall(e) ==
  LET out == AddResourceClaimTemplate(resourceClaimTemplates, e) IN
  /\ resourceClaimTemplates' = out.reg
  /\ lastCall' = [op |-> "AddResourceClaimTemplate", arg |-> e,
                  ret |-> Return("", out.err), again |-> FALSE]
  /\ firstStored' = IF out.err = NoError
                    THEN [firstStored EXCEPT !.templates = Remember(@, e)]
                    ELSE firstStored
  /\ UNCHANGED <<resourceClaimParameters, concVars>>

ResolveCall_Caching(claim) ==
  /\ lastCall' = [op |-> "Resolve", arg |-> claim, ret |-> Resolution(claim),
                  again |-> (lastCall.op = "Resolve" /\ lastCall.arg = claim)]
  /\ resourceClaimTemplates' =
        IF claim.ResourceClaimName = {} /\ claim.ResourceClaimTemplateName # {}
           /\ ~HasKey(resourceClaimTemplates, Deref(claim.ResourceClaimTemplateName))
        THEN MapStore(resourceClaimTemplates, Deref(claim.ResourceClaimTemplateName),
                      ZeroResourceClaim)
        ELSE resourceClaimTemplates
  /\ UNCHANGED <<resourceClaimParameters, firstStored, concVars>>

ResolveCall(claim) ==
  /\ lastCall' = [op |-> "Resolve", arg |-> claim, ret |-> Resolution(claim),
                  again |-> (lastCall.op = "Resolve" /\ lastCall.arg = claim)]
  /\ UNCHANGED <<registries, firstStored, concVars>>

Next ==
  \/ \E e \in ParamEntries : AddClaimParametersCall(e)
  \/ \E e \in TemplateEntries : AddResourceClaimTemplateCall(e)
  \/ \E claim \in Claims : ResolveCall(claim)

Spec == Init /\ [][Next]_vars

(***************************************************************************)
(* State machine 2: NumProcs goroutines call the two registration methods  *)
(* on one manager with no synchronisation.  A call is the presence check   *)
(* (line 51 / 59) followed by the map insert and return (line 54 / 63).    *)
(* Unsynchronised access to one Go map with a write involved is a data     *)
(* race: besides every interleaving of the two steps, the runtime may      *)
(* abort the process with a fatal error.                                   *)
(* succeeded counts, per registry, the calls that returned nil; raced      *)
(* holds the registries on which two calls have been in progress together. *)
(***************************************************************************)
StoredIn(op) ==
  IF op = "AddClaimParameters" THEN resourceClaimParameters ELSE resourceClaimTemplates

Begin(p, op, e) ==
  /\ ~crashed
  /\ pc[p] = "idle"
  /\ pc' = [pc EXCEPT ![p] = "check"]
  /\ call' = [call EXCEPT ![p] = [op |-> op, arg |-> e]]
  /\ result' = [result EXCEPT ![p] = [done |-> FALSE, err |-> NoError]]
  /\ raced' = IF \E q \in Procs \ {p} :
                      pc[q] # "idle" /\ call[q].op = op /\ call[q].arg.Name = e.Name
              THEN raced \cup {KeyOf(op, e)} ELSE raced
  /\ UNCHANGED <<registries, lastCall, firstStored, succeeded, crashed>>

CheckPresent_Skipped(p) ==
  /\ ~crashed
  /\ pc[p] = "check"
  /\ pc' = [pc EXCEPT ![p] = "insert"]
  /\ UNCHANGED <<registries, lastCall, firstStored, call, result, succeeded, raced, crashed>>

CheckPresent(p) ==
  /\ ~crashed
  /\ pc[p] = "check"
  /\ IF HasKey(StoredIn(call[p].op), call[p].arg.Name)
     THEN /\ pc' = [pc EXCEPT ![p] = "idle"]
          /\ result' = [result EXCEPT ![p] =
                          [done |-> TRUE,
                           err |-> IF call[p].op = "AddClaimParameters"
                                   THEN errDuplicateParameters
                                   ELSE errDuplicateTemplate]]
     ELSE /\ pc' = [pc EXCEPT ![p] = "insert"]
          /\ UNCHANGED result
  /\ UNCHANGED <<registries, lastCall, firstStored, call, succeeded, raced, crashed>>

InsertAndReturn(p) ==
  /\ ~crashed
  /\ pc[p] = "insert"
  /\ IF call[p].op = "AddClaimParameters"
     THEN /\ resourceClaimParameters' =
               MapStore(resourceClaimParameters, call[p].arg.Name, call[p].arg)
          /\ UNCHANGED resourceClaimTemplates
     ELSE /\ resourceClaimTemplates' =
               MapStore(resourceClaimTemplates, call[p].arg.Name, call[p].arg)
          /\ UNCHANGED resourceClaimParameters
  /\ pc' = [pc EXCEPT ![p] = "idle"]
  /\ result' = [result EXCEPT ![p] = [done |-> TRUE, err |-> NoError]]
  /\ succeeded' = [succeeded EXCEPT ![KeyOf(call[p].op, call[p].arg)] = @ + 1]
  /\ firstStored' = [firstStored EXCEPT ![RegistryOf(call[p].op)] = Remember(@, call[p].arg)]
  /\ UNCHANGED <<lastCall, call, raced, crashed>>

FatalMapRace ==
  /\ ~crashed
  /\ \E p \in Procs, q \in Procs :
        /\ p # q
        /\ pc[p] = "insert"
        /\ pc[q] \in {"check", "insert"}
        /\ call[p].op = call[q].op
  /\ crashed' = TRUE
  /\ UNCHANGED <<registries, lastCall, firstStored, pc, call, result, succeeded, raced>>

NextConc ==
  \/ \E p \in Procs, e \in RaceParamEntries : Begin(p, "AddClaimParameters", e)
  \/ \E p \in Procs, e \in RaceTemplateEntries : Begin(p, "AddResourceClaimTemplate", e)
  \/ \E p \in Procs : CheckPresent(p)
  \/ \E p \in Procs : InsertAndReturn(p)
  \/ FatalMapRace

SpecConc == Init /\ [][NextConc]_vars

(***************************************************************************)
(* The failure kinds, by the message the caller receives                   *)
(***************************************************************************)
DuplicateParameters == Error("duplicate resource claim parameters defined")

DuplicateTemplate == Error("duplicate resource claim template defined")

UnsupportedClaimShape ==
  Error("failed to resolve resource claim to device: resource claim should be nil")

TemplateNotFound ==
  Error("failed to resolve resource claim to device: Pod Resource Claim Source not found")

ParametersNotFound == Error("failed to resolve resource claim parameters")

MissingHostpath == Error("missing hostpath in simple device resource claim parameters")

MissingCDIField(k) == Error("missing " \o k \o " parameter of CDI claim parameter resource")

UnsupportedSchema(v) == Error("unsupported resource claim parameter apiVersion: " \o v)

TemplateClaims ==
  {c \in Claims : c.ResourceClaimName = {} /\ c.ResourceClaimTemplateName # {}}

TemplateNameOf(c) == Deref(c.ResourceClaimTemplateName)

(* the claims whose template and parameter set are both registered *)
ReachingClaims ==
  {c \in TemplateClaims :
     /\ HasKey(resourceClaimTemplates, TemplateNameOf(c))
     /\ HasKey(resourceClaimParameters,
               resourceClaimTemplates[TemplateNameOf(c)].ParametersRef)}

ParametersOf(c) ==
  resourceClaimParameters[resourceClaimTemplates[TemplateNameOf(c)].ParametersRef]

Resolved == lastCall.op = "Resolve"

(***************************************************************************)
(* C1: in each registry, adding an entry under an absent name returns nil  *)
(* and stores that entry under its name; adding under a present name       *)
(* returns the duplicate error and leaves the registry as it was, so every *)
(* stored entry is the first one registered under its name.                *)
(***************************************************************************)
C1_WriteOncePerName ==
  [][/\ lastCall'.op = "AddClaimParameters" =>
          LET e == lastCall'.arg IN
          IF HasKey(resourceClaimParameters, e.Name)
          THEN /\ lastCall'.ret.err = DuplicateParameters
               /\ resourceClaimParameters' = resourceClaimParameters
          ELSE /\ lastCall'.ret.err = NoError
               /\ DOMAIN resourceClaimParameters' = DOMAIN resourceClaimParameters \cup {e.Name}
               /\ resourceClaimParameters'[e.Name] = e
               /\ \A n \in DOMAIN resourceClaimParameters :
                     resourceClaimParameters'[n] = resourceClaimParameters[n]
     /\ lastCall'.op = "AddResourceClaimTemplate" =>
          LET e == lastCall'.arg IN
          IF HasKey(resourceClaimTemplates, e.Name)
          THEN /\ lastCall'.ret.err = DuplicateTemplate
               /\ resourceClaimTemplates' = resourceClaimTemplates
          ELSE /\ lastCall'.ret.err = NoError
               /\ DOMAIN resourceClaimTemplates' = DOMAIN resourceClaimTemplates \cup {e.Name}
               /\ resourceClaimTemplates'[e.Name] = e
               /\ \A n \in DOMAIN resourceClaimTemplates :
                     resourceClaimTemplates'[n] = resourceClaimTemplates[n]
     /\ resourceClaimParameters' = firstStored'.params
     /\ resourceClaimTemplates' = firstStored'.templates]_vars

C1_Witness ==
  /\ lastCall.op = "AddClaimParameters"
  /\ lastCall.ret.err = DuplicateParameters
  /\ resourceClaimParameters[lastCall.arg.Name] # lastCall.arg
  /\ resourceClaimTemplates # <<>>

(***************************************************************************)
(* C2: a claim whose ResourceClaimName is set resolves to the "resource    *)
(* claim should be nil" failure, whatever its template name and whatever   *)
(* the two registries hold.                                                *)
(***************************************************************************)
C2_DirectNameRejected ==
  /\ \A c \in Claims :
        c.ResourceClaimName # {} => Resolution(c) = Return("", UnsupportedClaimShape)
  /\ (Resolved /\ lastCall.arg.ResourceClaimName # {}) =>
        lastCall.ret = Return("", UnsupportedClaimShape)

C2_Witness ==
  /\ Resolved
  /\ lastCall.arg.ResourceClaimName # {}
  /\ lastCall.arg.ResourceClaimTemplateName # {}
  /\ lastCall.ret = Return("", UnsupportedClaimShape)
  /\ Resolution([lastCall.arg EXCEPT !.ResourceClaimName = {}]).err = NoError

(***************************************************************************)
(* C3: a template-name claim whose template is not registered fails with   *)
(* TemplateNotFound, whatever the parameter registry holds; one whose      *)
(* template is registered but whose ParametersRef name is not fails with   *)
(* ParametersNotFound.                                                     *)
(***************************************************************************)
C3_LookupFailures ==
  /\ \A c \in TemplateClaims :
        IF ~HasKey(resourceClaimTemplates, TemplateNameOf(c))
        THEN Resolution(c) = Return("", TemplateNotFound)
        ELSE ~HasKey(resourceClaimParameters,
                     resourceClaimTemplates[TemplateNameOf(c)].ParametersRef)
                => Resolution(c) = Return("", ParametersNotFound)
  /\ (Resolved /\ lastCall.arg \in TemplateClaims
        /\ ~HasKey(resourceClaimTemplates, TemplateNameOf(lastCall.arg)))
       => lastCall.ret = Return("", TemplateNotFound)

C3_Witness ==
  /\ Resolved
  /\ lastCall.arg \in TemplateClaims
  /\ lastCall.ret = Return("", ParametersNotFound)
  /\ resourceClaimParameters # <<>>
  /\ \E c \in TemplateClaims : Resolution(c) = Return("", TemplateNotFound)

(***************************************************************************)
(* C4: for a CDI parameter set reached through a registered template, the  *)
(* failure names the first of device, vendor, name that spec lacks; with   *)
(* all three present the result is "<vendor>/<device>=<name>".             *)
(***************************************************************************)
CDIExpected(sp) ==
  IF "device" \notin DOMAIN sp THEN Return("", MissingCDIField("device"))
  ELSE IF "vendor" \notin DOMAIN sp THEN Return("", MissingCDIField("vendor"))
  ELSE IF "name" \notin DOMAIN sp THEN Return("", MissingCDIField("name"))
  ELSE Return(sp["vendor"] \o "/" \o sp["device"] \o "=" \o sp["name"], NoError)

C4_CDIDevice ==
  /\ \A c \in ReachingClaims :
        ParametersOf(c).APIVersion = CDIClaimParametersApiVersion
          => Resolution(c) = CDIExpected(ParametersOf(c).Spec)
  /\ (Resolved /\ lastCall.arg \in ReachingClaims
        /\ ParametersOf(lastCall.arg).APIVersion = CDIClaimParametersApiVersion)
       => lastCall.ret = CDIExpected(ParametersOf(lastCall.arg).Spec)

C4_Witness ==
  /\ Resolved
  /\ lastCall.arg \in ReachingClaims
  /\ ParametersOf(lastCall.arg).APIVersion = CDIClaimParametersApiVersion
  /\ lastCall.ret = Return("acme/gpu=0", NoError)
  /\ \E e \in ParamEntries :
        /\ DOMAIN e.Spec = {"hostpath"}
        /\ resolveCDIDevice(e) = Return("", MissingCDIField("device"))

(***************************************************************************)
(* C5: for a simple-device parameter set reached through a registered      *)
(* template, the result is the value of spec's hostpath key unchanged,     *)
(* whatever else spec holds, and the hostpath failure when the key is      *)
(* absent.                                                                 *)
(***************************************************************************)
C5_SimpleDevice ==
  /\ \A c \in ReachingClaims :
        ParametersOf(c).APIVersion = SimpleDeviceClaimParametersApiVersion
          => Resolution(c) =
               IF "hostpath" \in DOMAIN ParametersOf(c).Spec
               THEN Return(ParametersOf(c).Spec["hostpath"], NoError)
               ELSE Return("", MissingHostpath)
  /\ (Resolved /\ lastCall.arg \in ReachingClaims
        /\ ParametersOf(lastCall.arg).APIVersion = SimpleDeviceClaimParametersApiVersion
        /\ "hostpath" \in DOMAIN ParametersOf(lastCall.arg).Spec)
       => lastCall.ret = Return(ParametersOf(lastCall.arg).Spec["hostpath"], NoError)

C5_Witness ==
  /\ Resolved
  /\ lastCall.arg \in ReachingClaims
  /\ ParametersOf(lastCall.arg).APIVersion = SimpleDeviceClaimParametersApiVersion
  /\ DOMAIN ParametersOf(lastCall.arg).Spec = SpecKeys
  /\ lastCall.ret = Return("/dev/foo", NoError)

(***************************************************************************)
(* C6: a parameter set whose APIVersion is neither recognised identifier   *)
(* fails with the unsupported-apiVersion error carrying that value,        *)
(* whatever keys its spec holds.                                           *)
(***************************************************************************)
C6_UnsupportedSchema ==
  /\ \A c \in ReachingClaims :
        ParametersOf(c).APIVersion \notin
            {SimpleDeviceClaimParametersApiVersion, CDIClaimParametersApiVersion}
          => Resolution(c) = Return("", UnsupportedSchema(ParametersOf(c).APIVersion))
  /\ (Resolved /\ lastCall.arg \in ReachingClaims
        /\ ParametersOf(lastCall.arg).APIVersion = OtherApiVersion)
       => lastCall.ret = Return("", UnsupportedSchema(OtherApiVersion))

C6_Witness ==
  /\ Resolved
  /\ lastCall.arg \in ReachingClaims
  /\ ParametersOf(lastCall.arg).APIVersion = OtherApiVersion
  /\ DOMAIN ParametersOf(lastCall.arg).Spec = SpecKeys
  /\ lastCall.ret = Return("", UnsupportedSchema(OtherApiVersion))

(***************************************************************************)
(* C7 as stated: every resolution failure names what was looked up: the    *)
(* template name for TemplateNotFound, the parameter-set name for          *)
(* ParametersNotFound, the key for MissingField, the schema value for      *)
(* UnsupportedSchema.                                                      *)
(***************************************************************************)
Message(ret) == Deref(ret.err)

NamesMissingKey(c) ==
  LET ps == ParametersOf(c) IN
  /\ (ps.APIVersion = SimpleDeviceClaimParametersApiVersion
        /\ "hostpath" \notin DOMAIN ps.Spec)
       => Contains(Message(lastCall.ret), "hostpath")
  /\ (ps.APIVersion = CDIClaimParametersApiVersion
        /\ {"device", "vendor", "name"} \ DOMAIN ps.Spec # {})
       => \E k \in {"device", "vendor", "name"} \ DOMAIN ps.Spec :
             Message(lastCall.ret) = "missing " \o k \o " parameter of CDI claim parameter resource"

NamesSchema(c) ==
  ParametersOf(c).APIVersion \notin
      {SimpleDeviceClaimParametersApiVersion, CDIClaimParametersApiVersion}
    => Contains(Message(lastCall.ret), ParametersOf(c).APIVersion)

C7_Original ==
  (Resolved /\ lastCall.arg \in TemplateClaims /\ lastCall.ret.err # NoError) =>
     LET c == lastCall.arg IN
     IF ~HasKey(resourceClaimTemplates, TemplateNameOf(c))
     THEN Contains(Message(lastCall.ret), TemplateNameOf(c))
     ELSE IF c \notin ReachingClaims
     THEN Contains(Message(lastCall.ret),
                   resourceClaimTemplates[TemplateNameOf(c)].ParametersRef)
     ELSE NamesMissingKey(c) /\ NamesSchema(c)

(***************************************************************************)
(* C7 amended: a MissingField failure names the missing key and an         *)
(* UnsupportedSchema failure carries the rejected schema value, while      *)
(* TemplateNotFound and ParametersNotFound are fixed messages that name    *)
(* neither the template nor the parameter set that was looked up.          *)
(***************************************************************************)
C7_FailureContext ==
  (Resolved /\ lastCall.arg \in TemplateClaims /\ lastCall.ret.err # NoError) =>
     LET c == lastCall.arg IN
     IF ~HasKey(resourceClaimTemplates, TemplateNameOf(c))
     THEN /\ lastCall.ret.err = TemplateNotFound
          /\ ~Contains(Message(lastCall.ret), TemplateNameOf(c))
     ELSE IF c \notin ReachingClaims
     THEN /\ lastCall.ret.err = ParametersNotFound
          /\ ~Contains(Message(lastCall.ret),
                       resourceClaimTemplates[TemplateNameOf(c)].ParametersRef)
     ELSE NamesMissingKey(c) /\ NamesSchema(c)

C7_Witness ==
  /\ Resolved
  /\ lastCall.arg \in ReachingClaims
  /\ ParametersOf(lastCall.arg).APIVersion = CDIClaimParametersApiVersion
  /\ DOMAIN ParametersOf(lastCall.arg).Spec = {"device", "name"}
  /\ Contains(Message(lastCall.ret), "vendor")
  /\ \E c \in TemplateClaims :
        /\ Resolution(c).err = TemplateNotFound
        /\ ~Contains(Message(Resolution(c)), TemplateNameOf(c))

(***************************************************************************)
(* C8: a resolution call leaves both registries as they were, and a        *)
(* resolution of the same claim right after another, with no registration  *)
(* in between, returns what the first one returned.                        *)
(***************************************************************************)
C8_ResolutionReadOnly ==
  [][/\ lastCall'.op = "Resolve" => registries' = registries
     /\ (lastCall.op = "Resolve" /\ lastCall'.op = "Resolve"
           /\ lastCall'.arg = lastCall.arg)
          => lastCall'.ret = lastCall.ret]_vars

C8_Witness ==
  /\ Resolved
  /\ lastCall.again
  /\ lastCall.ret.err = NoError
  /\ lastCall.ret.val # ""

(***************************************************************************)
(* C9: a claim that resolves to a device string keeps resolving to that    *)
(* string across every later registration call, accepted or rejected; the  *)
(* only answers a registration can change are TemplateNotFound and         *)
(* ParametersNotFound.                                                     *)
(***************************************************************************)
C9_StableResolution ==
  [][\A c \in Claims :
        LET before == Resolution(c)
            after  == Resolution(c)'
        IN  /\ before.err = NoError => after = before
            /\ after # before => before.err \in {TemplateNotFound, ParametersNotFound}]_vars

C9_Witness ==
  /\ lastCall.op = "AddClaimParameters"
  /\ lastCall.ret.err = DuplicateParameters
  /\ \E c \in ReachingClaims :
        /\ ParametersOf(c).Name = lastCall.arg.Name
        /\ Resolution(c).err = NoError
        /\ interpretParameters(lastCall.arg) # Resolution(c)

(***************************************************************************)
(* C10 as stated: when registrations of one name interleave, with the      *)
(* presence check and the insert as separate steps, at most one of them    *)
(* returns success and the entry it stored is never overwritten.           *)
(***************************************************************************)
WriteOnce(k) ==
  LET reg == IF k[1] = "params" THEN resourceClaimParameters ELSE resourceClaimTemplates IN
  /\ succeeded[k] <= 1
  /\ HasKey(reg, k[2]) => reg[k[2]] = firstStored[k[1]][k[2]]

C10_Original == \A k \in RaceKeys : WriteOnce(k)

(***************************************************************************)
(* C10 amended: registration is write-once for a name as long as no two    *)
(* registrations of that name have been in progress at the same time; two  *)
(* calls that interleave between the presence check and the insert can     *)
(* both return success, and the later insert replaces the earlier entry.   *)
(***************************************************************************)
C10_WriteOnceWhenSerialised == \A k \in RaceKeys : k \notin raced => WriteOnce(k)

C10_Witness ==
  /\ raced = {}
  /\ \E p \in Procs, q \in Procs :
        /\ p # q
        /\ call[p].op = "AddClaimParameters" /\ call[q].op = "AddClaimParameters"
        /\ call[p].arg # call[q].arg
        /\ result[p] = [done |-> TRUE, err |-> NoError]
        /\ result[q] = [done |-> TRUE, err |-> DuplicateParameters]
        /\ resourceClaimParameters[call[p].arg.Name] = call[p].arg

====
